---------------------------- MODULE Spec2Model ----------------------------
(***************************************************************************)
(* A model of plugin/http_client.py (vim-http-client).                     *)
(*                                                                         *)
(* Text is modelled as sequences of one-character strings, so that the     *)
(* regular expressions, str.replace, str.split and the JSON round trip of  *)
(* the code are computed character by character.                           *)
(*                                                                         *)
(* Three operations are modelled, each with its own specification:         *)
(*   Spec      do_request(block, buf)          lines 37-106                *)
(*   SpecCurl  create_template_from_curl()     lines 201-249               *)
(*   SpecRV    replace_vars(string, variables) lines 27-30                 *)
(***************************************************************************)
EXTENDS Naturals, Sequences, FiniteSets, TLC

\* ------------------------------------------------------------------------
\* Bounds of the model (sizes of the inputs that are enumerated).
\* ------------------------------------------------------------------------
MaxDecls == 2

MaxBodyLines == 2

MaxTextLen == 4

MaxVars == 2

\* ------------------------------------------------------------------------
\* Characters and generic string helpers (Python str methods).
\* ------------------------------------------------------------------------

\* The characters used by the model in code-point order: Python compares
\* (unicode) strings by code point when json.dumps sorts keys.
AsciiOrder ==
    << "\n", " ", "!", "\"", "#", "$", "(", ")", ",", "-", "/",
       "0", "1", "2", "3", "4", "5", "6", "7", "8", "9",
       ":", ";", "=", "?",
       "A", "B", "C", "D", "E", "G", "H", "I", "J", "L", "N", "O", "P", "S", "T", "U",
       "X", "\\",
       "a", "b", "c", "d", "e", "f", "g", "h", "i", "j", "l", "m", "n", "o",
       "p", "r", "s", "t", "u", "v", "x", "y", "z", "{", "}" >>

Ord(c) == CHOOSE i \in 1..Len(AsciiOrder) : AsciiOrder[i] = c

\* str.lower() on one character (only the letters the model uses in
\* content types need folding).
Lower(c) ==
    CASE c = "J" -> "j" [] c = "S" -> "s" [] c = "O" -> "o" [] c = "N" -> "n"
      [] c = "A" -> "a" [] c = "C" -> "c" [] c = "I" -> "i" [] c = "P" -> "p"
      [] c = "T" -> "t"
      [] OTHER -> c

LowerStr(s) == [i \in 1..Len(s) |-> Lower(s[i])]

\* What Python's \s and str.strip() treat as white space.
WhiteSpace == {" ", "\t", "\n", "\r"}

Digits == {"0", "1", "2", "3", "4", "5", "6", "7", "8", "9"}

StartsWith(s, p) == Len(p) <= Len(s) /\ SubSeq(s, 1, Len(p)) = p

EndsWith(s, p) == Len(p) <= Len(s) /\ SubSeq(s, Len(s) - Len(p) + 1, Len(s)) = p

Drop(s, n) == SubSeq(s, n + 1, Len(s))

Contains(s, c) == \E i \in 1..Len(s) : s[i] = c

\* Index of the first / last occurrence of character c in s, 0 when absent.
IndexOf(s, c) ==
    IF Contains(s, c) THEN CHOOSE i \in 1..Len(s) : s[i] = c /\ \A j \in 1..(i-1) : s[j] # c
    ELSE 0

LastIndexOf(s, c) ==
    IF Contains(s, c) THEN CHOOSE i \in 1..Len(s) : s[i] = c /\ \A j \in (i+1)..Len(s) : s[j] # c
    ELSE 0

RECURSIVE LStrip(_)
LStrip(s) == IF s # <<>> /\ Head(s) \in WhiteSpace THEN LStrip(Tail(s)) ELSE s

RECURSIVE RStrip(_)
RStrip(s) ==
    IF s # <<>> /\ s[Len(s)] \in WhiteSpace THEN RStrip(SubSeq(s, 1, Len(s) - 1)) ELSE s

\* str.strip()
Strip(s) == RStrip(LStrip(s))

\* A replace that stops after the first occurrence, as str.replace(old, new, 1)
\* would: replace_vars with it leaves later occurrences of a token in place.
str_replace_first(s, old, new) ==
    LET hit == {i \in 1..Len(s) : StartsWith(Drop(s, i - 1), old)}
    IN  IF hit = {} THEN s
        ELSE LET i == CHOOSE x \in hit : \A y \in hit : x <= y
             IN  SubSeq(s, 1, i - 1) \o new \o Drop(s, i - 1 + Len(old))

\* str.replace(old, new): left to right, non-overlapping, the replaced text
\* is not scanned again. old is never empty in this program.
RECURSIVE str_replace(_, _, _)
str_replace(s, old, new) ==
    IF Len(s) < Len(old) THEN s
    ELSE IF StartsWith(s, old) THEN new \o str_replace(Drop(s, Len(old)), old, new)
    ELSE <<Head(s)>> \o str_replace(Tail(s), old, new)

\* str.split(sep) for a one-character separator: always at least one piece.
RECURSIVE str_split(_, _)
str_split(s, sep) ==
    LET i == IndexOf(s, sep)
    IN  IF i = 0 THEN <<s>>
        ELSE <<SubSeq(s, 1, i - 1)>> \o str_split(Drop(s, i), sep)

\* sep.join(lines)
RECURSIVE str_join(_, _)
str_join(lines, sep) ==
    IF lines = <<>> THEN <<>>
    ELSE IF Len(lines) = 1 THEN lines[1]
    ELSE lines[1] \o sep \o str_join(Tail(lines), sep)

\* The elements of a sequence.
Range(s) == {s[i] : i \in 1..Len(s)}

\* All orderings of a finite set, as sequences without repetition.
Orderings(S) ==
    {p \in [1..Cardinality(S) -> S] : \A i, j \in 1..Cardinality(S) : i # j => p[i] # p[j]}

\* '%s' % n for a natural number.
RECURSIVE IntToStr(_)
IntToStr(n) ==
    LET d == AsciiOrder[Ord("0") + (n % 10)]
    IN  IF n < 10 THEN <<d>> ELSE IntToStr(n \div 10) \o <<d>>

\* ------------------------------------------------------------------------
\* The regular expressions of lines 17-22.
\* ------------------------------------------------------------------------
NoMatch == [ok |-> FALSE, groups |-> <<>>]

Methods ==
    { <<"G","E","T">>, <<"P","O","S","T">>, <<"D","E","L","E","T","E">>,
      <<"P","U","T">>, <<"H","E","A","D">>, <<"O","P","T","I","O","N","S">>,
      <<"P","A","T","C","H">> }

\* METHOD_REGEX.match(line): '^(GET|POST|DELETE|PUT|HEAD|OPTIONS|PATCH) (.*)$'
METHOD_REGEX(line) ==
    LET ms == {m \in Methods : StartsWith(line, m \o <<" ">>)}
    IN  IF ms = {} THEN NoMatch
        ELSE LET m == CHOOSE x \in ms : TRUE
             IN  [ok |-> TRUE, groups |-> <<m, Drop(line, Len(m) + 1)>>]

\* The characters the header-name class [^()<>@,;:\<>/\[\]?={}] excludes.
HeaderExcluded == {"(", ")", "<", ">", "@", ",", ";", ":", "/", "[", "]", "?", "=", "{", "}"}

\* HEADER_REGEX.match(line): '^([^()<>@,;:\<>/\[\]?={}]+):\s*(.*)$'
HEADER_REGEX(line) ==
    LET i == IndexOf(line, ":")
    IN  IF i >= 2 /\ \A j \in 1..(i-1) : line[j] \notin HeaderExcluded
        THEN [ok |-> TRUE, groups |-> <<SubSeq(line, 1, i - 1), LStrip(Drop(line, i))>>]
        ELSE NoMatch

\* How r matches '\s*=\s*(.+)$': the value is r after the '=' with leading
\* white space skipped, except that (.+) keeps one character when only white
\* space follows the '='.
AfterNameOk(r) ==
    LET r1 == LStrip(r) IN r1 # <<>> /\ Head(r1) = "=" /\ Len(r1) >= 2

AfterNameValue(r) ==
    LET r2 == Tail(LStrip(r))
        r3 == LStrip(r2)
    IN  IF r3 = <<>> THEN <<r2[Len(r2)]>> ELSE r3

\* '^# ?(M[^M ]+)\s*=\s*(.+)$' for the marker M (':' or '$'): the name is the
\* longest run of characters other than M and ' ' that lets the rest match.
DeclMatch(line, marker) ==
    LET p    == IF Len(line) >= 2 /\ line[2] = " " THEN 3 ELSE 2
        rest == Drop(line, p)
        run  == {k \in 1..Len(rest) : \A j \in 1..k : rest[j] \notin {marker, " "}}
        cand == {k \in run : AfterNameOk(Drop(rest, k))}
    IN  IF Len(line) >= p /\ line[1] = "#" /\ line[p] = marker /\ cand # {}
        THEN LET k == CHOOSE x \in cand : \A y \in cand : y <= x
             IN  [ok |-> TRUE,
                  groups |-> << <<marker>> \o SubSeq(rest, 1, k), AfterNameValue(Drop(rest, k)) >>]
        ELSE NoMatch

\* VAR_REGEX.match(line): '^# ?(:[^: ]+)\s*=\s*(.+)$'
VAR_REGEX(line) == DeclMatch(line, ":")

\* GLOBAL_VAR_REGEX.match(line): '^# ?(\$[^$ ]+)\s*=\s*(.+)$'
GLOBAL_VAR_REGEX(line) == DeclMatch(line, "$")

FilePrefix == <<"!","f","i","l","e","(">>

ContentPrefix == <<"!","c","o","n","t","e","n","t","(">>

\* FILE_REGEX.match(v): "!((?:file)|(?:(?:content)))\((.+)\)" anchored at the
\* start of v only; the greedy (.+) runs to the last ')' of v.
FILE_REGEX(v) ==
    LET pre == IF StartsWith(v, FilePrefix) THEN FilePrefix
               ELSE IF StartsWith(v, ContentPrefix) THEN ContentPrefix ELSE <<>>
        j   == LastIndexOf(v, ")")
    IN  IF pre # <<>> /\ j >= Len(pre) + 2
        THEN [ok |-> TRUE,
              groups |-> << SubSeq(pre, 2, Len(pre) - 1), SubSeq(v, Len(pre) + 1, j - 1) >>]
        ELSE NoMatch

\* JSON_REGEX.search(s): "(javascript|json)$", re.IGNORECASE
JSON_REGEX(s) ==
    \/ EndsWith(LowerStr(s), <<"j","s","o","n">>)
    \/ EndsWith(LowerStr(s), <<"j","a","v","a","s","c","r","i","p","t">>)

\* ------------------------------------------------------------------------
\* json.loads / json.dumps (lines 93-96, 233-234, 246) on the JSON texts the
\* model uses: objects, strings without escapes, and unsigned integers, with
\* white space between tokens.
\* ------------------------------------------------------------------------
JFail == [ok |-> FALSE, val |-> [t |-> "none", v |-> <<>>], rest |-> <<>>]

\* -?(?:0|[1-9]\d*) without the sign: a leading 0 is a number of its own.
JNumber(s) ==
    LET run == {k \in 1..Len(s) : \A j \in 1..k : s[j] \in Digits}
        n   == IF s[1] = "0" THEN 1 ELSE CHOOSE k \in run : \A y \in run : y <= k
    IN  [ok |-> TRUE, val |-> [t |-> "num", v |-> SubSeq(s, 1, n)], rest |-> Drop(s, n)]

\* A string: up to the next '"'; a raw control character is an error.
JString(s) ==
    LET i == IndexOf(Tail(s), "\"")
    IN  IF i = 0 \/ Contains(SubSeq(s, 2, i), "\n") \/ Contains(SubSeq(s, 2, i), "\\")
        THEN JFail
        ELSE [ok |-> TRUE, val |-> [t |-> "str", v |-> SubSeq(s, 2, i)], rest |-> Drop(s, i + 1)]

RECURSIVE JValue(_)
RECURSIVE JMembers(_, _)
\* One "key": value member at the head of s, then ',' and more, or '}'.
JMembers(s, acc) ==
    IF s = <<>> \/ Head(s) # "\"" THEN JFail
    ELSE LET k  == JString(s)
             s1 == LStrip(k.rest)
         IN  IF ~k.ok \/ s1 = <<>> \/ Head(s1) # ":" THEN JFail
             ELSE LET v  == JValue(LStrip(Tail(s1)))
                      s2 == LStrip(v.rest)
                      m  == Append(acc, <<k.val.v, v.val>>)
                  IN  IF ~v.ok \/ s2 = <<>> THEN JFail
                      ELSE IF Head(s2) = "}"
                           THEN [ok |-> TRUE, val |-> [t |-> "obj", v |-> m], rest |-> Tail(s2)]
                      ELSE IF Head(s2) = "," THEN JMembers(LStrip(Tail(s2)), m)
                      ELSE JFail

JValue(s) ==
    IF s = <<>> THEN JFail
    ELSE IF Head(s) \in Digits THEN JNumber(s)
    ELSE IF Head(s) = "\"" THEN JString(s)
    ELSE IF Head(s) = "{"
         THEN LET s1 == LStrip(Tail(s))
              IN  IF s1 # <<>> /\ Head(s1) = "}"
                  THEN [ok |-> TRUE, val |-> [t |-> "obj", v |-> <<>>], rest |-> Tail(s1)]
                  ELSE JMembers(s1, <<>>)
    ELSE JFail

\* json.loads(text): ok is FALSE where Python raises ValueError.
json_loads(text) ==
    LET r == JValue(LStrip(text))
    IN  IF r.ok /\ LStrip(r.rest) = <<>> THEN r ELSE JFail

\* a < b for strings, by code point.
LexLess(a, b) ==
    \E i \in 1..(Len(a) + 1) :
        /\ \A j \in 1..(i-1) : j <= Len(b) /\ a[j] = b[j]
        /\ i <= Len(b)
        /\ (i > Len(a) \/ Ord(a[i]) < Ord(b[i]))

SortKeys(K) == CHOOSE p \in Orderings(K) : \A i, j \in 1..Len(p) : i < j => LexLess(p[i], p[j])

Spaces(n) == [i \in 1..n |-> " "]

\* The value a parsed object holds for key k: the last member wins.
ObjGet(members, k) ==
    LET i == CHOOSE x \in 1..Len(members) :
                 members[x][1] = k /\ \A y \in (x+1)..Len(members) : members[y][1] # k
    IN  members[i][2]

\* json.dumps(val, sort_keys=True, indent=indent, separators=(',', ': ')) at
\* nesting depth level.
RECURSIVE json_dumps(_, _, _)
RECURSIVE DumpItems(_, _, _, _)
DumpItems(members, keys, indent, level) ==
    LET k    == Head(keys)
        item == Spaces((level + 1) * indent) \o <<"\"">> \o k \o <<"\"", ":", " ">>
                \o json_dumps(ObjGet(members, k), indent, level + 1)
    IN  IF Len(keys) = 1 THEN item
        ELSE item \o <<",", "\n">> \o DumpItems(members, Tail(keys), indent, level)

json_dumps(val, indent, level) ==
    IF val.t = "num" THEN val.v
    ELSE IF val.t = "str" THEN <<"\"">> \o val.v \o <<"\"">>
    ELSE IF val.v = <<>> THEN <<"{", "}">>
    ELSE <<"{", "\n">>
         \o DumpItems(val.v, SortKeys({val.v[i][1] : i \in 1..Len(val.v)}), indent, level)
         \o <<"\n">> \o Spaces(level * indent) \o <<"}">>

\* ------------------------------------------------------------------------
\* Python dicts: a function from keys to values. Where the code iterates a
\* dict (replace_vars, the files comprehension) the iteration order is not
\* fixed by the language the code is written for (Python 2), so it is chosen
\* nondeterministically where the dict is built or walked.
\* ------------------------------------------------------------------------

\* dict(pairs): the last pair of a key wins.
DictFromPairs(ps) ==
    [k \in {ps[i][1] : i \in 1..Len(ps)} |->
        LET i == CHOOSE x \in 1..Len(ps) :
                     ps[x][1] = k /\ \A y \in (x+1)..Len(ps) : ps[y][1] # k
        IN  ps[i][2]]

\* d.update(e)
DictUpdate(d, e) ==
    [k \in (DOMAIN d) \cup (DOMAIN e) |-> IF k \in DOMAIN e THEN e[k] ELSE d[k]]

\* d[k] = v
DictSet(d, k, v) == [x \in (DOMAIN d) \cup {k} |-> IF x = k THEN v ELSE d[x]]

EmptyDict == <<>>

\* Line 38: the groups of the lines of buf that GLOBAL_VAR_REGEX matches, in
\* line order.
GlobalVarGroups(doc) ==
    LET hit == SelectSeq(doc, LAMBDA l : GLOBAL_VAR_REGEX(l).ok)
    IN  [i \in 1..Len(hit) |-> GLOBAL_VAR_REGEX(hit[i]).groups]

\* Line 39: the groups of the lines of block that VAR_REGEX matches.
VarGroups(blk) ==
    LET hit == SelectSeq(blk, LAMBDA l : VAR_REGEX(l).ok)
    IN  [i \in 1..Len(hit) |-> VAR_REGEX(hit[i]).groups]

\* Lines 38-39 (and 161-162): the variable table of a request.
VariableTable(blk, doc) ==
    DictUpdate(DictFromPairs(GlobalVarGroups(doc)), DictFromPairs(VarGroups(blk)))

\* A replace_vars whose return stands inside the loop: only the first entry
\* of the table is applied.
replace_vars_first(string, variables) ==
    IF variables = <<>> THEN string
    ELSE str_replace(string, variables[1][1], variables[1][2])

\* replace_vars(string, variables), lines 27-30. variables is the dict in its
\* iteration order: a sequence of <<token, value>>.
RECURSIVE replace_vars(_, _)
replace_vars(string, variables) ==
    IF variables = <<>> THEN string
    ELSE replace_vars(str_replace(string, variables[1][1], variables[1][2]), Tail(variables))

\* is_comment(s), lines 33-34
is_comment(s) == StartsWith(s, <<"#">>)

\* The filter of line 41 (and 164, 215).
KeepLine(line) == ~is_comment(line) /\ Strip(line) # <<>>

\* l.split('=', 1) for a line that contains '='
SplitFirstEq(l) == << SubSeq(l, 1, IndexOf(l, "=") - 1), Drop(l, IndexOf(l, "=")) >>

\* A to_file without the second replace of line 72: '\\)' stays escaped.
to_file_open_only(expr) ==
    LET g == FILE_REGEX(expr).groups
    IN  [type |-> g[1], arg |-> str_replace(g[2], <<"\\", "(">>, <<"(">>)]

\* to_file(expr), lines 71-74, up to the open() call: the kind of the
\* attachment and its unescaped argument.
to_file(expr) ==
    LET g   == FILE_REGEX(expr).groups
        arg == str_replace(str_replace(g[2], <<"\\", "(">>, <<"(">>), <<"\\", ")">>, <<")">>)
    IN  [type |-> g[1], arg |-> arg]

\* Line 77: the entries of key_value_pairs that are not attachments.
FormData(kvp) == [k \in {x \in DOMAIN kvp : ~FILE_REGEX(kvp[x]).ok} |-> kvp[k]]

\* Line 76: the keys whose value is an attachment directive.
FileKeys(kvp) == {x \in DOMAIN kvp : FILE_REGEX(kvp[x]).ok}

\* any() in place of all() at line 68.
AllHaveEq_Any(lines) == \E i \in 1..Len(lines) : Contains(lines[i], "=")

\* Line 68 with an emptiness test in front: no line is no form.
AllHaveEq_NonEmpty(lines) ==
    lines # <<>> /\ \A i \in 1..Len(lines) : Contains(lines[i], "=")

\* Line 68: all([ '=' in l for l in data ]); true of the empty list.
AllHaveEq(lines) == \A i \in 1..Len(lines) : Contains(lines[i], "=")

\* response.headers.get(name, default): requests' header dict ignores case.
HeaderGet(hs, name, default) ==
    LET hit == {i \in 1..Len(hs) : LowerStr(hs[i][1]) = LowerStr(name)}
    IN  IF hit = {} THEN default ELSE hs[CHOOSE i \in hit : TRUE][2]

ContentTypeName == <<"C","o","n","t","e","n","t","-","T","y","p","e">>

ApplicationJson == <<"a","p","p","l","i","c","a","t","i","o","n","/","j","s","o","n">>

\* Line 87
StrippedContentType(resp) == str_split(HeaderGet(resp.headers, ContentTypeName, <<>>), ";")[1]

\* Lines 89-98: the body to display.
ResponseBody(resp) ==
    LET r == json_loads(resp.text)
    IN  IF JSON_REGEX(StrippedContentType(resp)) /\ r.ok
        THEN json_dumps(r.val, 2, 0)
        ELSE resp.text

\* A reported content type that is rewritten only when the body parsed, as
\* if line 91 stood inside the try of lines 92-96.
ReportedContentType_IfParsed(resp) ==
    IF JSON_REGEX(StrippedContentType(resp)) /\ json_loads(resp.text).ok THEN ApplicationJson
    ELSE StrippedContentType(resp)

\* Lines 90-91: the content type reported to the caller.
ReportedContentType(resp) ==
    IF JSON_REGEX(StrippedContentType(resp)) THEN ApplicationJson
    ELSE StrippedContentType(resp)

StatusPrefix == <<"/","/"," ","s","t","a","t","u","s"," ","c","o","d","e",":"," ">>

\* Lines 100-104
Display(resp) ==
    str_split(ResponseBody(resp), "\n")
    \o << <<>>, StatusPrefix \o IntToStr(resp.status_code) >>
    \o [i \in 1..Len(resp.headers) |->
            <<"/","/"," ">> \o resp.headers[i][1] \o <<":"," ">> \o resp.headers[i][2]]

\* ------------------------------------------------------------------------
\* State.
\* ------------------------------------------------------------------------
VARIABLES
    \* do_request(block, buf)
    pc,              \* position in do_request
    blockArg,        \* the block argument
    buf,             \* the buf argument (the document)
    reply,           \* what the transport will answer to a call
    variables,       \* the variable table in its iteration order
    block,           \* the local list block (filtered at line 41, popped from)
    method,
    url,
    rawUrl,          \* the URL as written (group 2 of the method line)
    headers,
    rawHeaders,      \* the header values as written, per name
    body,            \* the list data of line 66: the substituted remaining lines
    data,
    files,
    key_value_pairs,
    todo,            \* attachment keys the comprehension of line 76 has yet to reach
    openFiles,       \* file objects opened by line 74 and not closed
    calls,           \* the calls made to requests.request
    printed,         \* what was print()ed
    error,           \* the exception do_request raised
    content_type,
    display,
    \* create_template_from_curl()
    cpc,             \* position in create_template_from_curl
    commands,        \* shlex.split(block)
    result,          \* parser.parse_args(commands)
    emitted,         \* the lines written to the buffer
    cerror,          \* the exception create_template_from_curl raised
    \* replace_vars(string, variables) on its own
    rvpc,
    rvString,
    rvTable,
    rvResult

reqVars == << pc, blockArg, buf, reply, variables, block, method, url, rawUrl, headers,
              rawHeaders, body, data, files, key_value_pairs, todo, openFiles, calls, printed,
              error, content_type, display >>

curlVars == << cpc, commands, result, emitted, cerror >>

rvVars == << rvpc, rvString, rvTable, rvResult >>

vars == << reqVars, curlVars, rvVars >>

None == <<"None">>

\* All sequences over S of length at most n.
SeqsUpTo(S, n) == UNION {[1..k -> S] : k \in 0..n}

\* ------------------------------------------------------------------------
\* The inputs of do_request that are enumerated.
\* ------------------------------------------------------------------------

\* Lines that may precede the method line.
DeclLines ==
    { <<"#"," ",":","a"," ","="," ","x">>,              \* # :a = x
      <<"#",":","a","=","y">>,                          \* #:a=y
      <<"#"," ",":","a","b"," ","="," ","z">>,          \* # :ab = z
      <<"#"," ",":","b"," ","="," ",":","a">>,          \* # :b = :a
      <<"#"," ","n","o","t","e">>,                      \* # note
      <<" "," ">> }                                     \* a blank line

MethodLines ==
    { <<"G","E","T"," ",":","a","/",":","a","b">>,      \* GET :a/:ab
      <<"P","O","S","T"," ","$","g","/",":","b">>,      \* POST $g/:b
      <<"G","O","T"," ","h">> }                         \* GOT h

HeaderBlocks ==
    { <<>>,
      << <<"X",":"," ",":","a">> >>,                                \* X: :a
      << <<"X",":"," ","$","g">>, <<"#"," ","n","o","t","e">>,
         <<"X",":"," ",":","b",":","b">> >> }       \* X: $g / # note / X: :b:b

Bufs ==
    { <<>>,
      << <<"#"," ","$","g"," ","="," ","k">> >>,                    \* # $g = k
      << <<"t","e","x","t">>, <<"#"," ","$","g"," ","="," ",":","a">> >> } \* # $g = :a

\* Lines that may follow the method line and the headers.
BodyLines ==
    { <<"k","=","v">>,                                              \* k=v
      <<"f","=","!","f","i","l","e","(","p",")">>,                  \* f=!file(p)
      <<"g","=","!","f","i","l","e","(","q",")">>,                  \* g=!file(q)
      <<"c","=","!","c","o","n","t","e","n","t","(","\\","(","x","\\",")",")">>,
                                                                    \* c=!content(\(x\))
      <<"t","=","!","c","o","n","t","e","n","t","(","x",")","y">>,  \* t=!content(x)y
      <<"s","o","m","e"," ",":","a">>,                              \* some :a
      <<"k","=","w","=",":","a">> }                                 \* k=w=:a

PostLine == <<"P","O","S","T"," ","h">>

DeclA == <<"#"," ",":","a"," ","="," ","x">>

\* Blocks that vary the declarations, the URL and the headers.
VarBlocks ==
    {d \o <<m>> \o h : d \in SeqsUpTo(DeclLines, MaxDecls), m \in MethodLines, h \in HeaderBlocks}
    \cup SeqsUpTo(DeclLines, MaxDecls)

\* Blocks that vary the lines after the headers.
BodyBlocks ==
    {<<DeclA, PostLine>> \o h \o b :
        h \in {<<>>, << <<"X",":"," ",":","a">> >>}, b \in SeqsUpTo(BodyLines, MaxBodyLines)}

Header(n, v) == <<n, v>>

Response(code, hs, text) == [kind |-> "response", status_code |-> code, headers |-> hs, text |-> text]

TransportError == [kind |-> "error", status_code |-> 0, headers |-> <<>>, text |-> <<>>]

ContentTypes ==
    { <<"a","/","j","s","o","n">>,                      \* a/json
      <<"a","/","J","S","O","N",";"," ","q">>,          \* a/JSON; q
      <<"j","a","v","a","s","c","r","i","p","t">>,      \* javascript
      <<"j","s","o","n","p">>,                          \* jsonp
      <<"t","e","x","t","/","h","t","m","l">> }         \* text/html

Texts ==
    { <<"{","\"","b","\"",":","1",",","\"","a","\"",":","2","}">>,   \* {"b":1,"a":2}
      <<"{","\"","a","\"",":","{","\"","c","\"",":","\"","d","\"","}","}">>, \* {"a":{"c":"d"}}
      <<"{","\"","a","\"",":","1">>,                                 \* {"a":1
      <<"u","\n","v">>,                                              \* u, newline, v
      <<"7">>,
      <<>> }

ServerHeader == Header(<<"S","e","r","v","e","r">>, <<"n">>)

Replies ==
    {Response(200, <<Header(ContentTypeName, ct), ServerHeader>>, t) : ct \in ContentTypes, t \in Texts}
    \cup {Response(404, <<ServerHeader, Header(LowerStr(ContentTypeName), ct)>>, t) :
             ct \in {<<"a","/","j","s","o","n">>}, t \in Texts}
    \cup {Response(200, <<ServerHeader>>, t) : t \in Texts}
    \cup {TransportError}

PlainReply == Response(200, <<Header(ContentTypeName, <<"a","/","j","s","o","n">>)>>, <<"7">>)

Scenarios ==
    (VarBlocks \X Bufs \X {PlainReply})
    \cup (BodyBlocks \X {<<>>} \X {PlainReply, TransportError})
    \cup ({<<PostLine, <<"k","=","v">> >>} \X {<<>>} \X Replies)

NoData == [kind |-> "unset", text |-> <<>>, fields |-> EmptyDict]

NoFiles == [kind |-> "None", fields |-> EmptyDict]

ReqIdle ==
    /\ variables = <<>> /\ block = <<>> /\ method = <<>> /\ url = <<>> /\ rawUrl = <<>>
    /\ headers = EmptyDict /\ rawHeaders = EmptyDict /\ body = <<>> /\ data = NoData /\ files = NoFiles
    /\ key_value_pairs = EmptyDict /\ todo = {} /\ openFiles = {} /\ calls = <<>>
    /\ printed = <<>> /\ error = None /\ content_type = None /\ display = None

CurlIdle == cpc = "idle" /\ commands = <<>> /\ result = None /\ emitted = <<>> /\ cerror = None

RvIdle == rvpc = "idle" /\ rvString = <<>> /\ rvTable = <<>> /\ rvResult = <<>>

Init ==
    /\ \E sc \in Scenarios : blockArg = sc[1] /\ buf = sc[2] /\ reply = sc[3]
    /\ pc = "start"
    /\ ReqIdle /\ CurlIdle /\ RvIdle

\* ------------------------------------------------------------------------
\* do_request, lines 37-106.
\* ------------------------------------------------------------------------

\* What is left open of a set of file objects once do_request has returned or
\* raised: the code never closes them, and whether the interpreter has
\* already finalised the unreferenced ones is not decided by the program.
LeftOpen(handles) == {handles, {}}

\* Lines 38-39
ParseVariables ==
    /\ pc = "start"
    /\ LET t == VariableTable(blockArg, buf)
       IN  \E order \in Orderings(DOMAIN t) :
               variables' = [i \in 1..Len(order) |-> <<order[i], t[order[i]]>>]
    /\ block' = blockArg
    /\ pc' = "strip"
    /\ UNCHANGED << curlVars, rvVars >>
    /\ UNCHANGED << blockArg, buf, reply, body, method, url, rawUrl, headers, rawHeaders, data, files,
                    key_value_pairs, todo, openFiles, calls, printed, error, content_type,
                    display >>

\* Lines 41-45
StripBlock ==
    /\ pc = "strip"
    /\ block' = SelectSeq(block, KeepLine)
    /\ IF Len(block') = 0
       THEN /\ printed' = <<"R","e","q","u","e","s","t"," ","w","a","s"," ","e","m","p","t","y",".">>
            /\ pc' = "returned"
       ELSE /\ printed' = printed
            /\ pc' = "method"
    /\ UNCHANGED << curlVars, rvVars >>
    /\ UNCHANGED << blockArg, buf, reply, body, variables, method, url, rawUrl, headers, rawHeaders,
                    data, files, key_value_pairs, todo, openFiles, calls, error, content_type,
                    display >>

\* Lines 47-56 without the return of line 54: the message is printed and
\* the request goes on with no method and no URL.
ParseMethodLine_NoReturn ==
    /\ pc = "method"
    /\ block' = Tail(block)
    /\ LET m == METHOD_REGEX(Head(block))
       IN  IF ~m.ok
           THEN /\ printed' = <<"C","o","u","l","d"," ","n","o","t"," ","f","i","n","d"," ",
                                "m","e","t","h","o","d"," ","o","r"," ","U","R","L","!">>
                /\ UNCHANGED << method, url, rawUrl >>
           ELSE /\ method' = m.groups[1]
                /\ rawUrl' = m.groups[2]
                /\ url' = replace_vars(m.groups[2], variables)
                /\ printed' = printed
    /\ pc' = "headers"
    /\ headers' = EmptyDict
    /\ UNCHANGED << curlVars, rvVars >>
    /\ UNCHANGED << blockArg, buf, reply, body, variables, rawHeaders, data, files, key_value_pairs,
                    todo, openFiles, calls, error, content_type, display >>

\* Lines 47-56
ParseMethodLine ==
    /\ pc = "method"
    /\ block' = Tail(block)
    /\ LET m == METHOD_REGEX(Head(block))
       IN  IF ~m.ok
           THEN /\ printed' = <<"C","o","u","l","d"," ","n","o","t"," ","f","i","n","d"," ",
                                "m","e","t","h","o","d"," ","o","r"," ","U","R","L","!">>
                /\ pc' = "returned"
                /\ UNCHANGED << method, url, rawUrl >>
           ELSE /\ method' = m.groups[1]
                /\ rawUrl' = m.groups[2]
                /\ url' = replace_vars(m.groups[2], variables)
                /\ pc' = "headers"
                /\ printed' = printed
    /\ headers' = EmptyDict
    /\ UNCHANGED << curlVars, rvVars >>
    /\ UNCHANGED << blockArg, buf, reply, body, variables, rawHeaders, data, files, key_value_pairs,
                    todo, openFiles, calls, error, content_type, display >>

\* Lines 57-59: the loop condition and the match of the next line.
MoreHeaders == Len(block) > 0 /\ HEADER_REGEX(block[1]).ok

\* Lines 57-62: one turn of the header loop.
ParseHeader ==
    /\ pc = "headers"
    /\ MoreHeaders
    /\ LET g == HEADER_REGEX(block[1]).groups
       IN  /\ headers' = DictSet(headers, g[1], replace_vars(g[2], variables))
           /\ rawHeaders' = DictSet(rawHeaders, g[1], g[2])
    /\ block' = Tail(block)
    /\ UNCHANGED << curlVars, rvVars >>
    /\ UNCHANGED << pc, blockArg, buf, reply, body, variables, method, url, rawUrl, data, files,
                    key_value_pairs, todo, openFiles, calls, printed, error, content_type,
                    display >>

\* Lines 63-70 and 78-80: the loop ends; the remaining lines are classified.
ClassifyBody ==
    /\ pc = "headers"
    /\ ~MoreHeaders
    /\ LET lines == [i \in 1..Len(block) |-> replace_vars(block[i], variables)]
       IN  /\ body' = lines
           /\ IF AllHaveEq(lines)
              THEN /\ key_value_pairs' =
                          DictFromPairs([i \in 1..Len(lines) |-> SplitFirstEq(lines[i])])
                   /\ data' = [NoData EXCEPT !.kind = "list"]
                   /\ files' = [kind |-> "dict", fields |-> EmptyDict]
                   /\ todo' = FileKeys(key_value_pairs')
                   /\ pc' = "files"
              ELSE /\ data' = [NoData EXCEPT !.kind = "str", !.text = str_join(lines, <<"\n">>)]
                   /\ files' = NoFiles
                   /\ pc' = "send"
                   /\ UNCHANGED << key_value_pairs, todo >>
    /\ UNCHANGED << curlVars, rvVars >>
    /\ UNCHANGED << blockArg, buf, reply, variables, block, method, url, rawUrl, headers,
                    rawHeaders, openFiles, calls, printed, error, content_type, display >>

\* Lines 71-76: the comprehension reaches one more attachment. open() either
\* returns a file object or raises IOError, which ends do_request.
OpenAttachment ==
    /\ pc = "files"
    /\ \E k \in todo :
          LET f == to_file(key_value_pairs[k])
          IN  \/ /\ f.type = <<"c","o","n","t","e","n","t">>
                 /\ files' = [files EXCEPT !.fields = DictSet(files.fields, k, f)]
                 /\ todo' = todo \ {k}
                 /\ UNCHANGED << pc, openFiles, error >>
              \/ /\ f.type = <<"f","i","l","e">>
                 /\ files' = [files EXCEPT !.fields = DictSet(files.fields, k, f)]
                 /\ openFiles' = openFiles \cup {<<k, f.arg>>}
                 /\ todo' = todo \ {k}
                 /\ UNCHANGED << pc, error >>
              \/ /\ f.type = <<"f","i","l","e">>
                 /\ error' = <<"IOError">>
                 /\ pc' = "raised"
                 /\ openFiles' \in LeftOpen(openFiles)
                 /\ UNCHANGED << files, todo >>
    /\ UNCHANGED << curlVars, rvVars >>
    /\ UNCHANGED << blockArg, buf, reply, body, variables, block, method, url, rawUrl, headers,
                    rawHeaders, data, key_value_pairs, calls, printed, content_type, display >>

\* Line 77
BuildFormData ==
    /\ pc = "files"
    /\ todo = {}
    /\ data' = [NoData EXCEPT !.kind = "dict", !.fields = FormData(key_value_pairs)]
    /\ pc' = "send"
    /\ UNCHANGED << curlVars, rvVars >>
    /\ UNCHANGED << blockArg, buf, reply, body, variables, block, method, url, rawUrl, headers,
                    rawHeaders, files, key_value_pairs, todo, openFiles, calls, printed, error,
                    content_type, display >>

\* Lines 82-86: the transport is called; it answers or raises.
Send ==
    /\ pc = "send"
    /\ calls' = Append(calls, [method |-> method, url |-> url, headers |-> headers,
                               data |-> data, files |-> files])
    /\ IF reply.kind = "error"
       THEN /\ error' = <<"TransportError">>
            /\ pc' = "raised"
            /\ openFiles' \in LeftOpen(openFiles)
       ELSE /\ pc' = "render"
            /\ UNCHANGED << error, openFiles >>
    /\ UNCHANGED << curlVars, rvVars >>
    /\ UNCHANGED << blockArg, buf, reply, body, variables, block, method, url, rawUrl, headers,
                    rawHeaders, data, files, key_value_pairs, todo, printed, content_type,
                    display >>

\* Lines 87-106
Render ==
    /\ pc = "render"
    /\ content_type' = ReportedContentType(reply)
    /\ display' = Display(reply)
    /\ pc' = "returned"
    /\ openFiles' \in LeftOpen(openFiles)
    /\ UNCHANGED << curlVars, rvVars >>
    /\ UNCHANGED << blockArg, buf, reply, body, variables, block, method, url, rawUrl, headers,
                    rawHeaders, data, files, key_value_pairs, todo, calls, printed, error >>

Next ==
    \/ ParseVariables
    \/ StripBlock
    \/ ParseMethodLine
    \/ ParseHeader
    \/ ClassifyBody
    \/ OpenAttachment
    \/ BuildFormData
    \/ Send
    \/ Render

Spec == Init /\ [][Next]_vars

\* ------------------------------------------------------------------------
\* create_template_from_curl, lines 201-249, from the token list that
\* shlex.split returns at line 219.
\* ------------------------------------------------------------------------
OptH == <<"-","H">>

OptV == <<"-","v">>

OptD == <<"-","d">>

OptX == <<"-","X">>

CurlWord == <<"c","u","r","l">>

\* The namespace of a parser built by curl_parser() before any argument is
\* read: every destination is None, the store_true flag False.
NoArgs == [ok |-> TRUE, H |-> None, v |-> FALSE, d |-> None, X |-> None, url |-> None]

ArgError == [NoArgs EXCEPT !.ok = FALSE]

\* parser.parse_args(tokens), lines 201-208 and 224, for tokens that are one
\* of the four flags, a flag's value, or a positional: -H appends, -d and -X
\* store (the last one wins), -v sets a flag, the one positional is the URL.
\* ok is FALSE where argparse reports an error and exits: a flag without its
\* value, an unknown flag, a second positional, or no positional at all.
RECURSIVE ParseArgs(_, _)
ParseArgs(tokens, ns) ==
    IF tokens = <<>> THEN (IF ns.url = None THEN ArgError ELSE ns)
    ELSE LET t == Head(tokens)
         IN  IF t \in {OptH, OptD, OptX}
             THEN IF Len(tokens) < 2 \/ StartsWith(tokens[2], <<"-">>) THEN ArgError
                  ELSE LET val == tokens[2]
                           ns2 == IF t = OptH
                                  THEN [ns EXCEPT !.H = IF ns.H = None THEN <<val>>
                                                        ELSE Append(ns.H, val)]
                                  ELSE IF t = OptD THEN [ns EXCEPT !.d = val]
                                  ELSE [ns EXCEPT !.X = val]
                       IN  ParseArgs(Drop(tokens, 2), ns2)
             ELSE IF t = OptV THEN ParseArgs(Tail(tokens), [ns EXCEPT !.v = TRUE])
             ELSE IF StartsWith(t, <<"-">>) THEN ArgError
             ELSE IF ns.url # None THEN ArgError
             ELSE ParseArgs(Tail(tokens), [ns EXCEPT !.url = t])

\* is_json(myjson), lines 244-249, for a string argument.
is_json(myjson) == json_loads(myjson).ok

\* The command lines that are enumerated: an optional curl word, then the
\* flags in a fixed order, each present or not, then the URL or nothing.
CurlMethods == { <<>>, <<OptX, <<"P","O","S","T">> >> }

CurlHeaders ==
    { <<>>,
      <<OptH, <<"A",":"," ","b">> >>,                              \* -H 'A: b'
      <<OptH, <<"A",":"," ","b">>, OptH, <<"C",":"," ","d">> >> }  \* and -H 'C: d'

CurlBodies ==
    { <<>>,
      <<OptD, <<"h","e","l","l","o">> >>,                          \* -d hello
      <<OptD, <<"{","\"","b","\"",":"," ","1",","," ","\"","a","\"",":"," ","2","}">> >>,
                                                                   \* -d '{"b": 1, "a": 2}'
      <<OptD, <<"{","\"","a","\"",":","1">> >>,                    \* -d '{"a":1'
      <<OptD, <<"7">>, OptD, <<"{","}">> >>,                       \* -d 7 -d '{}'
      <<OptD>> }                                                   \* -d without a value

CurlTails ==
    { << <<"h","/","x">> >>,                                       \* h/x
      <<OptV, <<"h","/","x">> >>,                                  \* -v h/x
      << <<"h","/","x">>, <<"h","/","y">> >>,                      \* two positionals
      << <<"-","-","d","a","t","a">>, <<"h","/","x">> >>,          \* an unknown flag
      <<>> }                                                       \* no URL

CurlCommands ==
    {c \o m \o h \o b \o t :
        c \in {<<>>, <<CurlWord>>}, m \in CurlMethods, h \in CurlHeaders, b \in CurlBodies,
        t \in CurlTails}

ReqUnused ==
    /\ pc = "idle" /\ blockArg = <<>> /\ buf = <<>> /\ reply = TransportError /\ ReqIdle

InitCurl ==
    /\ commands \in CurlCommands
    /\ cpc = "start" /\ result = None /\ emitted = <<>> /\ cerror = None
    /\ ReqUnused /\ RvIdle

\* Lines 221-224: commands[0] of an empty list raises IndexError; a leading
\* curl is dropped; a command line the parser rejects ends in SystemExit.
CurlParseArgs ==
    /\ cpc = "start"
    /\ IF commands = <<>>
       THEN /\ cerror' = <<"IndexError">> /\ cpc' = "raised" /\ UNCHANGED << commands, result >>
       ELSE /\ commands' = IF commands[1] = CurlWord THEN Tail(commands) ELSE commands
            /\ LET r == ParseArgs(commands', NoArgs)
               IN  IF r.ok
                   THEN /\ result' = r /\ cpc' = "method" /\ cerror' = cerror
                   ELSE /\ cerror' = <<"SystemExit">> /\ cpc' = "raised" /\ result' = result
    /\ UNCHANGED << emitted, reqVars, rvVars >>

\* Lines 226-228: a new last line, then the text METHOD URL typed into it.
\* result.X is None without -X, and 'normal I' + None raises TypeError.
EmitMethodLine ==
    /\ cpc = "method"
    /\ IF result.X = None
       THEN /\ emitted' = Append(emitted, <<>>)
            /\ cerror' = <<"TypeError">> /\ cpc' = "raised"
       ELSE /\ emitted' = Append(emitted, result.X \o <<" ">> \o result.url)
            /\ cpc' = "headers" /\ cerror' = cerror
    /\ UNCHANGED << commands, result, reqVars, rvVars >>

\* Lines 229-231: one new line per header. result.H is None without -H, and
\* iterating None raises TypeError.
EmitHeaders ==
    /\ cpc = "headers"
    /\ IF result.H = None
       THEN /\ cerror' = <<"TypeError">> /\ cpc' = "raised" /\ emitted' = emitted
       ELSE /\ emitted' = emitted \o result.H
            /\ cpc' = "body" /\ cerror' = cerror
    /\ UNCHANGED << commands, result, reqVars, rvVars >>

\* Lines 232-241: json.loads(None) raises TypeError, which is_json does not
\* catch; a JSON body is emitted pretty-printed line by line; for any other
\* body line 240 opens a new line and line 241 reads the undefined name
\* results, which raises NameError.
EmitBody ==
    /\ cpc = "body"
    /\ IF result.d = None
       THEN /\ cerror' = <<"TypeError">> /\ cpc' = "raised" /\ emitted' = emitted
       ELSE IF is_json(result.d)
       THEN /\ emitted' = emitted \o str_split(json_dumps(json_loads(result.d).val, 4, 0), "\n")
            /\ cpc' = "done" /\ cerror' = cerror
       ELSE /\ emitted' = Append(emitted, <<>>)
            /\ cerror' = <<"NameError">> /\ cpc' = "raised"
    /\ UNCHANGED << commands, result, reqVars, rvVars >>

NextCurl == CurlParseArgs \/ EmitMethodLine \/ EmitHeaders \/ EmitBody

SpecCurl == InitCurl /\ [][NextCurl]_vars

\* ------------------------------------------------------------------------
\* replace_vars on its own: any string, any table in any iteration order.
\* ------------------------------------------------------------------------
RvAlphabet == {":", "a", "b", "$"}

\* Tokens as VAR_REGEX and GLOBAL_VAR_REGEX capture them, and values.
RvTokens == { <<":","a">>, <<":","b">>, <<"$","b">>, <<":","a","$","b">> }

RvValues == { <<"x">>, <<":">>, <<"b">> }

\* A dict in an iteration order: no token twice.
RvTables ==
    {t \in SeqsUpTo(RvTokens \X RvValues, MaxVars) :
        \A i, j \in 1..Len(t) : i # j => t[i][1] # t[j][1]}

InitRV ==
    /\ rvString \in SeqsUpTo(RvAlphabet, MaxTextLen)
    /\ rvTable \in RvTables
    /\ rvpc = "start" /\ rvResult = <<>>
    /\ ReqUnused /\ CurlIdle

\* A call of replace_vars(rvString, rvTable).
RvCall ==
    /\ rvpc = "start"
    /\ rvResult' = replace_vars(rvString, rvTable)
    /\ rvpc' = "done"
    /\ UNCHANGED << rvString, rvTable, reqVars, curlVars >>

NextRV == RvCall

SpecRV == InitRV /\ [][NextRV]_vars

\* ------------------------------------------------------------------------
\* Properties of do_request.
\* ------------------------------------------------------------------------

\* The block as line 41 leaves it.
Cleaned == SelectSeq(blockArg, KeepLine)

Finished == pc \in {"returned", "raised"}

\* C1: the transport is called at most once, and not at all when the block
\* is empty after stripping, when its first remaining line is no METHOD URL
\* line, or when opening a !file(...) attachment failed.
C1_NoCallBeforeDispatch ==
    /\ Len(calls) <= 1
    /\ (Cleaned = <<>> \/ ~METHOD_REGEX(Cleaned[1]).ok) => calls = <<>>
    /\ error = <<"IOError">> => calls = <<>>
    /\ (Finished /\ printed # <<>>) => calls = <<>>

\* C1 witness: do_request has ended on a failed open after an earlier
\* attachment of the same request was resolved.
C1_Witness ==
    /\ pc = "raised" /\ error = <<"IOError">> /\ Cardinality(DOMAIN files.fields) >= 1

\* Simultaneous substitution: one left-to-right pass that replaces a token
\* where it stands in the original text and never looks at replaced text.
RECURSIVE SimulSubst(_, _)
SimulSubst(text, table) ==
    IF text = <<>> THEN <<>>
    ELSE LET hit == {t \in DOMAIN table : StartsWith(text, t)}
         IN  IF hit = {} THEN <<Head(text)>> \o SimulSubst(Tail(text), table)
             ELSE LET t == CHOOSE x \in hit : \A y \in hit : Len(y) <= Len(x)
                  IN  table[t] \o SimulSubst(Drop(text, Len(t)), table)

\* Token a occurs inside token b, or an end of a is a beginning of b.
Overlap(a, b) ==
    \/ \E i \in 1..Len(b) : StartsWith(Drop(b, i - 1), a)
    \/ \E i \in 2..Len(a) : StartsWith(b, Drop(a, i - 1))

\* Inserting value v into some text can complete an occurrence of token t:
\* v holds the first character of t, or v begins with (or is the beginning
\* of) a proper suffix of t.
Completes(v, t) ==
    \/ Contains(v, t[1])
    \/ \E i \in 2..Len(t) : StartsWith(v, Drop(t, i - 1)) \/ StartsWith(Drop(t, i - 1), v)

\* No two entries of the table interact.
NoInteraction(table) ==
    \A a, b \in DOMAIN table : a # b => ~Overlap(a, b) /\ ~Completes(table[a], b)

\* C2 as stated: in the request sent, every occurrence of every declared
\* token in the URL and in each header value is replaced by the declared
\* value, and nothing else is altered.
C2_Original ==
    calls # <<>> =>
        LET t == VariableTable(blockArg, buf)
        IN  /\ calls[1].url = SimulSubst(rawUrl, t)
            /\ \A n \in DOMAIN rawHeaders : calls[1].headers[n] = SimulSubst(rawHeaders[n], t)

\* C2 amended: the same, for tables whose entries do not interact (no two
\* tokens overlap and no value can complete another token), each token
\* carrying the value of its last declaration.
C2_SubstitutionExact ==
    (calls # <<>> /\ NoInteraction(VariableTable(blockArg, buf))) =>
        LET t == VariableTable(blockArg, buf)
        IN  /\ calls[1].url = SimulSubst(rawUrl, t)
            /\ DOMAIN calls[1].headers = DOMAIN rawHeaders
            /\ \A n \in DOMAIN rawHeaders : calls[1].headers[n] = SimulSubst(rawHeaders[n], t)

\* C2 witness: a request was sent whose table has two entries that do not
\* interact, and both the URL and a header value were changed by them.
C2_Witness ==
    /\ calls # <<>>
    /\ Len(variables) >= 2
    /\ NoInteraction(VariableTable(blockArg, buf))
    /\ calls[1].url # rawUrl
    /\ \E n \in DOMAIN rawHeaders : calls[1].headers[n] # rawHeaders[n]

\* C3: the remaining lines are classified exclusively. If every line holds
\* '=', the request carries form fields, each a line split at its first '=';
\* otherwise it carries the one string of all lines joined by newline, no
\* attachment mapping and no form field.
C3_BodyClassifiedOnce ==
    calls # <<>> =>
        LET d == calls[1].data
            f == calls[1].files
        IN  /\ d.kind \in {"str", "dict"}
            /\ IF \A i \in 1..Len(body) : "=" \in Range(body[i])
               THEN /\ d.kind = "dict" /\ d.text = <<>>
                    /\ f.kind = "dict"
                    /\ \A i \in 1..Len(body) :
                          \E k \in (DOMAIN d.fields) \cup (DOMAIN f.fields) :
                              /\ "=" \notin Range(k)
                              /\ StartsWith(body[i], k \o <<"=">>)
                    /\ \A k \in DOMAIN d.fields :
                          /\ "=" \notin Range(k)
                          /\ \E i \in 1..Len(body) : body[i] = k \o <<"=">> \o d.fields[k]
               ELSE /\ d.kind = "str"
                    /\ str_split(d.text, "\n") = body
                    /\ d.fields = EmptyDict
                    /\ f.kind = "None" /\ f.fields = EmptyDict

\* C3 witness: a request was sent with a raw body of two lines, one of which
\* holds '='.
C3_Witness ==
    /\ calls # <<>>
    /\ calls[1].data.kind = "str"
    /\ Len(body) = 2
    /\ \E i \in 1..2 : "=" \in Range(body[i])

\* The directive of a field value: the value starts with !file( or
\* !content( and has a ')' after at least one character; ARG lies between
\* the opening '(' and the last ')'.
DirectiveKind(v) ==
    IF StartsWith(v, FilePrefix) THEN <<"f","i","l","e">>
    ELSE IF StartsWith(v, ContentPrefix) THEN <<"c","o","n","t","e","n","t">>
    ELSE <<>>

DirectiveArg(v) == SubSeq(v, Len(DirectiveKind(v)) + 3, LastIndexOf(v, ")") - 1)

IsDirective(v) == DirectiveKind(v) # <<>> /\ DirectiveArg(v) # <<>>

\* One pass that turns each '\(' into '(' and each '\)' into ')'.
RECURSIVE Unescape(_)
Unescape(s) ==
    IF Len(s) >= 2 /\ s[1] = "\\" /\ s[2] \in {"(", ")"}
    THEN <<s[2]>> \o Unescape(Drop(s, 2))
    ELSE IF s = <<>> THEN <<>>
    ELSE <<Head(s)>> \o Unescape(Tail(s))

\* C4: in the form path every field key is in exactly one of the two
\* mappings: in files if its value is a directive, otherwise in data with
\* its value; the payload of a directive is its kind and its unescaped ARG.
C4_FieldsPartitioned ==
    (calls # <<>> /\ calls[1].data.kind = "dict") =>
        LET d == calls[1].data.fields
            f == calls[1].files.fields
        IN  /\ (DOMAIN d) \cap (DOMAIN f) = {}
            /\ (DOMAIN d) \cup (DOMAIN f) = DOMAIN key_value_pairs
            /\ \A k \in DOMAIN key_value_pairs :
                  IF IsDirective(key_value_pairs[k])
                  THEN /\ k \in DOMAIN f
                       /\ f[k].type = DirectiveKind(key_value_pairs[k])
                       /\ f[k].arg = Unescape(DirectiveArg(key_value_pairs[k]))
                  ELSE /\ k \in DOMAIN d
                       /\ d[k] = key_value_pairs[k]

\* C4 witness: a form request was sent with a !content field whose argument
\* held escaped parentheses, beside a plain field.
C4_Witness ==
    /\ calls # <<>>
    /\ calls[1].data.kind = "dict"
    /\ DOMAIN calls[1].data.fields # {}
    /\ \E k \in DOMAIN calls[1].files.fields :
          /\ calls[1].files.fields[k].type = <<"c","o","n","t","e","n","t">>
          /\ calls[1].files.fields[k].arg # DirectiveArg(key_value_pairs[k])

\* The content type of the reply up to its first ';', and whether it ends
\* in json or javascript whatever the case of its letters.
ReplyType == 
    LET v == HeaderGet(reply.headers, ContentTypeName, <<>>)
        i == IndexOf(v, ";")
    IN  IF i = 0 THEN v ELSE SubSeq(v, 1, i - 1)

JsonFamily ==
    \E suffix \in {<<"j","s","o","n">>, <<"j","a","v","a","s","c","r","i","p","t">>} :
        /\ Len(ReplyType) >= Len(suffix)
        /\ \A i \in 1..Len(suffix) :
              Lower(ReplyType[Len(ReplyType) - Len(suffix) + i]) = suffix[i]

\* C5: for a JSON-family content type the reported type is application/json
\* whether or not the body parses; a body that parses is displayed
\* re-serialised (sorted keys, indent 2), one that does not is displayed
\* unchanged and nothing is raised; the display is the body lines, a blank
\* line, the status line, and one line per response header in order.
C5_Rendering ==
    /\ pc = "raised" => error \in {<<"IOError">>, <<"TransportError">>}
    /\ (pc = "returned" /\ calls # <<>>) =>
          LET n    == Len(reply.headers)
              m    == Len(display) - n - 2
              shown == str_join(SubSeq(display, 1, m), <<"\n">>)
          IN  /\ JsonFamily => content_type = ApplicationJson
              /\ ~JsonFamily => content_type = ReplyType
              /\ m >= 1
              /\ \A i \in 1..m : "\n" \notin Range(display[i])
              /\ IF JsonFamily /\ json_loads(reply.text).ok
                 THEN shown = json_dumps(json_loads(reply.text).val, 2, 0)
                 ELSE shown = reply.text
              /\ display[m + 1] = <<>>
              /\ display[m + 2] = StatusPrefix \o IntToStr(reply.status_code)
              /\ \A i \in 1..n :
                    display[m + 2 + i] =
                        <<"/","/"," ">> \o reply.headers[i][1] \o <<":"," ">> \o reply.headers[i][2]

\* C5 witness: a reply of a JSON-family type whose body does not parse was
\* rendered, with two response headers.
C5_Witness ==
    /\ pc = "returned" /\ calls # <<>>
    /\ JsonFamily
    /\ ~json_loads(reply.text).ok
    /\ reply.text # <<>>
    /\ Len(reply.headers) = 2
    /\ ReplyType # HeaderGet(reply.headers, ContentTypeName, <<>>)

\* C7: every file do_request opened is closed once do_request has returned
\* or raised.
C7_AttachmentsClosed == Finished => openFiles = {}

\* C8: a field value is an attachment only if the directive spans the whole
\* value; one with text after the closing parenthesis is a plain form field.
C8_DirectiveSpansValue ==
    (calls # <<>> /\ calls[1].data.kind = "dict") =>
        \A k \in DOMAIN key_value_pairs :
            LET v == key_value_pairs[k]
            IN  (v # <<>> /\ v[Len(v)] # ")") =>
                    /\ k \notin DOMAIN calls[1].files.fields
                    /\ k \in DOMAIN calls[1].data.fields
                    /\ calls[1].data.fields[k] = v

\* C9 as stated: with no line left after the headers the transport gets
\* the string "" as data and no form or attachment mapping.
C9_Original ==
    (calls # <<>> /\ body = <<>>) =>
        /\ calls[1].data.kind = "str" /\ calls[1].data.text = <<>>
        /\ calls[1].files.kind = "None"

\* C9 amended: with no line left after the headers the form path is taken:
\* the transport gets an empty form mapping as data and an empty attachment
\* mapping as files, and no string body.
C9_EmptyBodyIsEmptyForm ==
    (calls # <<>> /\ body = <<>>) =>
        /\ calls[1].data.kind = "dict" /\ calls[1].data.fields = EmptyDict
        /\ calls[1].data.text = <<>>
        /\ calls[1].files.kind = "dict" /\ calls[1].files.fields = EmptyDict

\* C9 witness: a request with headers and no line after them was sent.
C9_Witness ==
    /\ calls # <<>>
    /\ body = <<>>
    /\ DOMAIN calls[1].headers # {}


\* ------------------------------------------------------------------------
\* Properties of create_template_from_curl.
\* ------------------------------------------------------------------------

\* The lines the reconstruction is to emit for parsed arguments r: the
\* METHOD URL line, one line per header, then the body, pretty-printed when
\* it parses as JSON and as one raw line when it does not.
ExpectedTemplate(r) ==
    << r.X \o <<" ">> \o r.url >> \o r.H
    \o (IF json_loads(r.d).ok
        THEN str_split(json_dumps(json_loads(r.d).val, 4, 0), "\n")
        ELSE << r.d >>)

\* C6: for every command line the flag grammar accepts, the reconstruction
\* never aborts, and with -X, -H and -d given it ends having emitted the
\* METHOD URL line, the header lines and the body lines.
C6_TemplateCompletes ==
    (cpc # "start" /\ cerror # <<"IndexError">> /\ cerror # <<"SystemExit">>) =>
        /\ cpc # "raised"
        /\ (cpc = "done" /\ result.X # None /\ result.H # None /\ result.d # None) =>
               emitted = ExpectedTemplate(result)

\* ------------------------------------------------------------------------
\* Properties of replace_vars.
\* ------------------------------------------------------------------------

\* The table of a call as a mapping from token to value.
RvDict == DictFromPairs(rvTable)

\* The precondition as stated: no value contains another entry's token and
\* no token is a prefix of another token.
StatedPrecondition(table) ==
    \A a, b \in DOMAIN table :
        a # b => /\ \A i \in 1..Len(table[a]) : ~StartsWith(Drop(table[a], i - 1), b)
                 /\ ~StartsWith(b, a)

\* C10 as stated: when no value contains another token and no token is a
\* prefix of another, every order of the entries gives the result of the
\* call, and no replaced text is replaced again.
C10_Original ==
    (rvpc = "done" /\ StatedPrecondition(RvDict)) =>
        /\ \A o \in Orderings(Range(rvTable)) : replace_vars(rvString, o) = rvResult
        /\ rvResult = SimulSubst(rvString, RvDict)

\* C10 amended: when the entries do not interact (no two tokens overlap and
\* no value can complete another token), every order of the entries gives
\* the result of the call, which is the simultaneous substitution.
C10_OrderIndependent ==
    (rvpc = "done" /\ NoInteraction(RvDict)) =>
        /\ \A o \in Orderings(Range(rvTable)) : replace_vars(rvString, o) = rvResult
        /\ rvResult = SimulSubst(rvString, RvDict)

\* C10 witness: a call with two entries that do not interact, both of whose
\* tokens stood in the text and were replaced.
C10_Witness ==
    /\ rvpc = "done"
    /\ Len(rvTable) = 2
    /\ NoInteraction(RvDict)
    /\ \A i \in 1..2 : str_replace(rvString, rvTable[i][1], rvTable[i][2]) # rvString

=============================================================================
